---- MODULE Spec2Model ----
(***************************************************************************)
(* Model of tools.py: spending_categorizer_and_analyser().                 *)
(*                                                                         *)
(* Amounts are exact fixed-point numbers.  Every INR amount passed to or   *)
(* returned by the function is an integer number of mills (1/1000 INR), so *)
(* Rs 30000.01 is 30000010.  A product rate * income (0.30, 0.10, 0.50 of  *)
(* the income) is held in tenths of a mill, the unit in which all three    *)
(* products are exact; an amount compared with such a product is brought   *)
(* to the same unit first.  The ",.2f" conversion of the messages turns a  *)
(* value in tenths of a mill into whole paise (1/100 INR).                 *)
(***************************************************************************)
EXTENDS Integers, Sequences, FiniteSets, TLC

VARIABLES args, result, pc

vars == <<args, result, pc>>

\* ---------------------------------------------------------------- bounds
\* Largest expense amount of the exhaustive input grid, in mills.
MaxAmount == 6
\* Largest savings target of the grid, in mills.
MaxTarget == 3
\* Unsanitized incomes and savings targets go down to -MaxNegative mills.
MaxNegative == 2

\* ------------------------------------------------------- policy constants
\* The rates are tenths: 0.30 = 3/10, 0.10 = 1/10, 0.50 = 5/10.
RATE_SCALE == 10
DISCRETIONARY_RATE == 3
THIN_SURPLUS_RATE == 1
FIXED_LOAD_RATE == 5
\* Tenths of a mill in one paise: ".2f" keeps two decimals of an INR value.
SUB_PER_PAISE == 100

\* ------------------------------------------------------------ arithmetic
\* rate * amount, in tenths of a mill (rate in tenths, amount in mills).
Times(rate, amount) == rate * amount

\* An amount in mills, in tenths of a mill.
ToSub(amount) == amount * RATE_SCALE

\* abs()
Abs(x) == IF x < 0 THEN 0 - x ELSE x

\* max(0, x)
Max0(x) == IF x > 0 THEN x ELSE 0

\* f"{value:,.2f}" of a non-negative value given in tenths of a mill: the
\* number of paise printed.  The value is rounded to the nearest paise.  A
\* value that lies, as a decimal, halfway between two paise is printed
\* as either neighbour, depending on the binary representation of the
\* float (0.005 prints 0.01, 0.045 prints 0.04); tieUp is that outcome.
Fmt2(sub, tieUp) ==
    LET q == sub \div SUB_PER_PAISE
        r == sub % SUB_PER_PAISE
    IN  IF 2 * r < SUB_PER_PAISE THEN q
        ELSE IF 2 * r > SUB_PER_PAISE THEN q + 1
        ELSE IF tieUp THEN q + 1 ELSE q

\* -------------------------------------------------------------- messages
\* A message is its wording (kind) and the amount, in paise, it prints
\* (0 for the two wordings that print no amount).
DiscretionaryMsg(paise) == [kind |-> "discretionary", amount |-> paise]
DeficitMsg(paise) == [kind |-> "deficit", amount |-> paise]
ThinSurplusMsg == [kind |-> "thin_surplus", amount |-> 0]
FixedLoadMsg == [kind |-> "fixed_load", amount |-> 0]

\* ------------------------------------------------------------ the function
\* mutant: the discretionary spending is left out of the sum
total_expenses_NoDiscretionary(a) ==
    a.fixed_expenses_inr + a.variable_expenses_inr

total_expenses(a) ==
    a.fixed_expenses_inr + a.variable_expenses_inr + a.discretionary_spending_inr

net_cash_flow(a) == a.monthly_net_income_inr - total_expenses(a)

\* mutant: the operands of the subtraction are swapped
excess_Swapped(a) ==
    Times(DISCRETIONARY_RATE, a.monthly_net_income_inr)
        - ToSub(a.discretionary_spending_inr)

\* excess of the discretionary check, in tenths of a mill
excess(a) ==
    ToSub(a.discretionary_spending_inr)
        - Times(DISCRETIONARY_RATE, a.monthly_net_income_inr)

\* mutant: ">=" in place of ">"
DiscretionaryCheck_AtLeast(suggestions, a, tieUp) ==
    IF ToSub(a.discretionary_spending_inr)
            >= Times(DISCRETIONARY_RATE, a.monthly_net_income_inr)
    THEN Append(suggestions, DiscretionaryMsg(Fmt2(excess(a), tieUp)))
    ELSE suggestions

\* mutant: the check is skipped when there is no income
DiscretionaryCheck_NeedsIncome(suggestions, a, tieUp) ==
    IF /\ a.monthly_net_income_inr > 0
       /\ ToSub(a.discretionary_spending_inr)
            > Times(DISCRETIONARY_RATE, a.monthly_net_income_inr)
    THEN Append(suggestions, DiscretionaryMsg(Fmt2(excess(a), tieUp)))
    ELSE suggestions

\* 50/30/20 rule, discretionary spending check
DiscretionaryCheck(suggestions, a, tieUp) ==
    IF ToSub(a.discretionary_spending_inr)
            > Times(DISCRETIONARY_RATE, a.monthly_net_income_inr)
    THEN Append(suggestions, DiscretionaryMsg(Fmt2(excess(a), tieUp)))
    ELSE suggestions

\* mutant: the deficit message is appended, not inserted at index 0
CashFlowCheck_AppendDeficit(suggestions, a, tieUp) ==
    IF net_cash_flow(a) < 0
    THEN Append(suggestions,
                DeficitMsg(Fmt2(ToSub(Abs(net_cash_flow(a))), tieUp)))
    ELSE IF ToSub(net_cash_flow(a))
                < Times(THIN_SURPLUS_RATE, a.monthly_net_income_inr)
         THEN Append(suggestions, ThinSurplusMsg)
         ELSE suggestions

\* mutant: "if" in place of "elif", the two branches are tested independently
CashFlowCheck_IfForElif(suggestions, a, tieUp) ==
    LET afterDeficit ==
            IF net_cash_flow(a) < 0
            THEN <<DeficitMsg(Fmt2(ToSub(Abs(net_cash_flow(a))), tieUp))>>
                    \o suggestions
            ELSE suggestions
    IN  IF ToSub(net_cash_flow(a))
                < Times(THIN_SURPLUS_RATE, a.monthly_net_income_inr)
        THEN Append(afterDeficit, ThinSurplusMsg)
        ELSE afterDeficit

\* mutant: "<=" in place of "<" in the thin-surplus test
CashFlowCheck_ThinAtTenPercent(suggestions, a, tieUp) ==
    IF net_cash_flow(a) < 0
    THEN <<DeficitMsg(Fmt2(ToSub(Abs(net_cash_flow(a))), tieUp))>> \o suggestions
    ELSE IF ToSub(net_cash_flow(a))
                <= Times(THIN_SURPLUS_RATE, a.monthly_net_income_inr)
         THEN Append(suggestions, ThinSurplusMsg)
         ELSE suggestions

\* cash-flow health analysis
CashFlowCheck(suggestions, a, tieUp) ==
    IF net_cash_flow(a) < 0
    THEN <<DeficitMsg(Fmt2(ToSub(Abs(net_cash_flow(a))), tieUp))>> \o suggestions
    ELSE IF ToSub(net_cash_flow(a))
                < Times(THIN_SURPLUS_RATE, a.monthly_net_income_inr)
         THEN Append(suggestions, ThinSurplusMsg)
         ELSE suggestions

\* mutant: ">=" in place of ">"
FixedLoadCheck_AtLeast(suggestions, a) ==
    IF ToSub(a.fixed_expenses_inr)
            >= Times(FIXED_LOAD_RATE, a.monthly_net_income_inr)
    THEN Append(suggestions, FixedLoadMsg)
    ELSE suggestions

\* fixed expense load check
FixedLoadCheck(suggestions, a) ==
    IF ToSub(a.fixed_expenses_inr)
            > Times(FIXED_LOAD_RATE, a.monthly_net_income_inr)
    THEN Append(suggestions, FixedLoadMsg)
    ELSE suggestions

goal_funding_status(a) ==
    IF net_cash_flow(a) >= a.target_savings_inr THEN "On track" ELSE "Shortfall"

\* mutant: the difference is not clamped at 0
funding_shortfall_NoClamp(a) == a.target_savings_inr - net_cash_flow(a)

funding_shortfall(a) == Max0(a.target_savings_inr - net_cash_flow(a))

optimization_suggestions(a, tieDisc, tieDeficit) ==
    FixedLoadCheck(
        CashFlowCheck(
            DiscretionaryCheck(<<>>, a, tieDisc),
            a, tieDeficit),
        a)

spending_categorizer_and_analyser(a, tieDisc, tieDeficit) ==
    [total_monthly_net_income_inr |-> a.monthly_net_income_inr,
     total_monthly_expenses_inr   |-> total_expenses(a),
     net_cash_flow_inr            |-> net_cash_flow(a),
     goal_funding_status          |-> goal_funding_status(a),
     funding_shortfall_inr        |-> funding_shortfall(a),
     optimization_areas           |-> optimization_suggestions(a, tieDisc, tieDeficit)]

\* ----------------------------------------------------------------- inputs
BudgetInput(income, fixed, variable, discretionary, target) ==
    [monthly_net_income_inr     |-> income,
     fixed_expenses_inr         |-> fixed,
     variable_expenses_inr      |-> variable,
     discretionary_spending_inr |-> discretionary,
     target_savings_inr         |-> target]

\* The exhaustive grid of sanitized inputs: every combination of small
\* amounts, in mills, none of them negative.
GridAmounts == 0..MaxAmount
GridVariable == 0..2
GridIncomes == 0..(MaxAmount + 4)
GridTargets == 0..MaxTarget

GridInputs ==
    {BudgetInput(i, f, v, d, t) :
        i \in GridIncomes, f \in GridAmounts, v \in GridVariable,
        d \in GridAmounts, t \in GridTargets}

\* The function validates nothing: the same grid with negative incomes and
\* expenses, as an unsanitized caller may pass them.
UnsanitizedGridInputs ==
    {BudgetInput(i, f, v, d, t) :
        i \in (0 - MaxNegative)..(MaxAmount + 4), f \in (0 - 1)..MaxAmount,
        v \in (0 - 1)..2, d \in (0 - 1)..MaxAmount,
        t \in (0 - MaxNegative)..MaxTarget}

\* Amounts of everyday size, in mills (Rs 50000 is 50000000).
ScenarioA == BudgetInput(50000000, 20000000, 10000000, 25000000, 5000000)
ScenarioB == BudgetInput(100000000, 40000000, 20000000, 10000000, 0)
ScenarioC == BudgetInput(60000000, 35000000, 5000000, 5000000, 0)
AtThirtyPercent == BudgetInput(100000000, 0, 0, 30000000, 0)
AboveThirtyPercent == BudgetInput(100000000, 0, 0, 30000010, 0)

ScenarioInputs ==
    {ScenarioA, ScenarioB, ScenarioC, AtThirtyPercent, AboveThirtyPercent}

Inputs == GridInputs \cup ScenarioInputs

UnsanitizedInputs == UnsanitizedGridInputs \cup ScenarioInputs

\* ----------------------------------------------------------- state machine
NoResult ==
    [total_monthly_net_income_inr |-> 0,
     total_monthly_expenses_inr   |-> 0,
     net_cash_flow_inr            |-> 0,
     goal_funding_status          |-> "",
     funding_shortfall_inr        |-> 0,
     optimization_areas           |-> <<>>]

\* The caller has built a BudgetInput and the tool has not run yet.
Init ==
    /\ pc = "idle"
    /\ args \in Inputs
    /\ result = NoResult

\* One call of the tool on args, from entry to the returned dict.
Call(tieDisc, tieDeficit) ==
    /\ pc = "idle"
    /\ result' = spending_categorizer_and_analyser(args, tieDisc, tieDeficit)
    /\ pc' = "returned"
    /\ UNCHANGED args

Next ==
    \E tieDisc \in BOOLEAN, tieDeficit \in BOOLEAN :
        Call(tieDisc, tieDeficit)

Spec == Init /\ [][Next]_vars

\* The caller passes numbers of any sign.
InitUnsanitized ==
    /\ pc = "idle"
    /\ args \in UnsanitizedInputs
    /\ result = NoResult

SpecUnsanitized == InitUnsanitized /\ [][Next]_vars

\* ------------------------------------------------------------- properties
Returned == pc = "returned"

Areas == result.optimization_areas

Positions(kind) == {k \in DOMAIN Areas : Areas[k].kind = kind}

Has(kind) == Positions(kind) # {}

\* The other discretionary amounts a caller may pass, everything else equal.
DiscretionaryValues == {a.discretionary_spending_inr : a \in Inputs}

\* C1: for non-negative income, fixed, variable and discretionary inputs the
\* returned total_monthly_expenses_inr is fixed + variable + discretionary,
\* net_cash_flow_inr is income - total_monthly_expenses_inr, and
\* total_monthly_net_income_inr is the income passed in.
C1_Totals ==
    (/\ Returned
     /\ args.monthly_net_income_inr >= 0
     /\ args.fixed_expenses_inr >= 0
     /\ args.variable_expenses_inr >= 0
     /\ args.discretionary_spending_inr >= 0)
    => /\ result.total_monthly_expenses_inr =
            args.fixed_expenses_inr + args.variable_expenses_inr
                + args.discretionary_spending_inr
       /\ result.net_cash_flow_inr =
            args.monthly_net_income_inr - result.total_monthly_expenses_inr
       /\ result.total_monthly_net_income_inr = args.monthly_net_income_inr

C1_Witness ==
    /\ Returned
    /\ args = ScenarioA
    /\ result.total_monthly_expenses_inr = 55000000
    /\ result.net_cash_flow_inr = 0 - 5000000
    /\ result.total_monthly_net_income_inr = 50000000

\* C2: funding_shortfall_inr is max(0, target_savings - net_cash_flow); the
\* status is "On track" iff net_cash_flow >= target_savings and "Shortfall"
\* otherwise; so the shortfall is never negative and is zero exactly when the
\* status is "On track".
C2_GoalFunding ==
    Returned =>
        LET gap == args.target_savings_inr - result.net_cash_flow_inr
        IN  /\ result.funding_shortfall_inr = (IF gap > 0 THEN gap ELSE 0)
            /\ result.goal_funding_status \in {"On track", "Shortfall"}
            /\ result.goal_funding_status = "On track"
                    <=> result.net_cash_flow_inr >= args.target_savings_inr
            /\ result.funding_shortfall_inr >= 0
            /\ result.funding_shortfall_inr = 0
                    <=> result.goal_funding_status = "On track"

C2_Witness ==
    /\ Returned
    /\ args = ScenarioA
    /\ result.goal_funding_status = "Shortfall"
    /\ result.funding_shortfall_inr = 10000000

\* C3: whenever net_cash_flow < 0 the deficit message is the first element
\* of optimization_areas, whatever other messages are present; when the
\* discretionary spending is also above 30% of the income, the discretionary
\* message comes after it.
C3_DeficitFirst ==
    (Returned /\ result.net_cash_flow_inr < 0) =>
        /\ Len(Areas) >= 1
        /\ Areas[1].kind = "deficit"
        /\ (10 * args.discretionary_spending_inr > 3 * args.monthly_net_income_inr)
            => \E k \in DOMAIN Areas : k > 1 /\ Areas[k].kind = "discretionary"

C3_Witness ==
    /\ Returned
    /\ args = ScenarioA
    /\ Len(Areas) = 2
    /\ Areas[1].kind = "deficit"
    /\ Areas[2].kind = "discretionary"

\* C4, as stated: the discretionary message is present iff the discretionary
\* spending is strictly greater than 30% of the income (absent at income
\* 100000 and spending 30000, present at spending 30000.01), and the excess
\* the message reports equals discretionary_spending - 30% of income.
C4_ReportedExcessExact ==
    Returned =>
        /\ Has("discretionary") <=>
            10 * args.discretionary_spending_inr > 3 * args.monthly_net_income_inr
        /\ args = AtThirtyPercent => ~Has("discretionary")
        /\ args = AboveThirtyPercent => Has("discretionary")
        /\ \A k \in Positions("discretionary") :
            100 * Areas[k].amount =
                10 * args.discretionary_spending_inr - 3 * args.monthly_net_income_inr

\* C4, amended: the discretionary message is present iff the discretionary
\* spending is strictly greater than 30% of the income (absent at income
\* 100000 and spending 30000, present at spending 30000.01 with a reported
\* excess of 0.01), and the excess the message reports is
\* discretionary_spending - 30% of income rounded to two decimal places,
\* so it differs from that difference by at most half a paise.
C4_ReportedExcessRounded ==
    Returned =>
        /\ Has("discretionary") <=>
            10 * args.discretionary_spending_inr > 3 * args.monthly_net_income_inr
        /\ args = AtThirtyPercent => ~Has("discretionary")
        /\ args = AboveThirtyPercent =>
            /\ Has("discretionary")
            /\ \A k \in Positions("discretionary") : Areas[k].amount = 1
        /\ \A k \in Positions("discretionary") :
            LET exact == 10 * args.discretionary_spending_inr
                            - 3 * args.monthly_net_income_inr
                shown == 100 * Areas[k].amount
            IN  /\ 2 * (shown - exact) <= 100
                /\ 2 * (exact - shown) <= 100

\* An excess with a fraction of a paise is reported: 0.004 is printed 0.00.
C4_Witness ==
    /\ Returned
    /\ args.monthly_net_income_inr = 0
    /\ args.discretionary_spending_inr = 4
    /\ \E k \in Positions("discretionary") : Areas[k].amount = 0

\* C5: optimization_areas never holds both the deficit and the thin-surplus
\* message; the deficit message is present iff net_cash_flow < 0; the
\* thin-surplus message is present iff net_cash_flow >= 0 and net_cash_flow
\* < 10% of the income, and it then comes after the discretionary message
\* (if any) instead of being put at the front.
C5_CashFlowBranches ==
    Returned =>
        /\ ~(Has("deficit") /\ Has("thin_surplus"))
        /\ Has("deficit") <=> result.net_cash_flow_inr < 0
        /\ Has("thin_surplus") <=>
            /\ result.net_cash_flow_inr >= 0
            /\ 10 * result.net_cash_flow_inr < args.monthly_net_income_inr
        /\ \A t \in Positions("thin_surplus") :
            /\ \A d \in Positions("discretionary") : d < t
            /\ Has("discretionary") => t = 2
            /\ ~Has("discretionary") => t = 1

\* income 10, discretionary 4 (above 30%), net cash flow 0 (below 10%)
C5_Witness ==
    /\ Returned
    /\ result.net_cash_flow_inr >= 0
    /\ Len(Areas) >= 2
    /\ Areas[1].kind = "discretionary"
    /\ Areas[2].kind = "thin_surplus"

\* C6: the fixed-cost load message is present iff fixed_expenses is strictly
\* greater than 50% of the income, whatever the discretionary and cash-flow
\* checks did, and when present it is the last element of optimization_areas.
C6_FixedLoadLast ==
    Returned =>
        /\ Has("fixed_load") <=>
            2 * args.fixed_expenses_inr > args.monthly_net_income_inr
        /\ Has("fixed_load") => Areas[Len(Areas)].kind = "fixed_load"

C6_Witness ==
    /\ Returned
    /\ args = ScenarioC
    /\ Areas = <<FixedLoadMsg>>

\* C7, as stated: if the discretionary message is present for spending d,
\* then for every d' > d, other inputs equal, it is present and the excess
\* it reports is strictly greater than the excess reported for d.
C7_ReportedExcessStrict ==
    (Returned /\ Has("discretionary")) =>
        \A d2 \in DiscretionaryValues :
            d2 > args.discretionary_spending_inr =>
                \A tieDisc \in BOOLEAN, tieDeficit \in BOOLEAN :
                    LET r2 == spending_categorizer_and_analyser(
                                [args EXCEPT !.discretionary_spending_inr = d2],
                                tieDisc, tieDeficit).optimization_areas
                    IN  /\ \E k \in DOMAIN r2 : r2[k].kind = "discretionary"
                        /\ \A k \in DOMAIN r2, j \in Positions("discretionary") :
                            r2[k].kind = "discretionary"
                                => r2[k].amount > Areas[j].amount

\* C7, amended: if the discretionary message is present for spending d, then
\* for every d' > d, other inputs equal, it is present and the excess it
\* reports is greater than or equal to the excess reported for d.
C7_ReportedExcessMonotone ==
    (Returned /\ Has("discretionary")) =>
        \A d2 \in DiscretionaryValues :
            d2 > args.discretionary_spending_inr =>
                \A tieDisc \in BOOLEAN, tieDeficit \in BOOLEAN :
                    LET r2 == spending_categorizer_and_analyser(
                                [args EXCEPT !.discretionary_spending_inr = d2],
                                tieDisc, tieDeficit).optimization_areas
                    IN  /\ \E k \in DOMAIN r2 : r2[k].kind = "discretionary"
                        /\ \A k \in DOMAIN r2, j \in Positions("discretionary") :
                            r2[k].kind = "discretionary"
                                => r2[k].amount >= Areas[j].amount

\* spending 0.001 reports 0.00, and so does the larger spending 0.002
C7_Witness ==
    /\ Returned
    /\ args.monthly_net_income_inr = 0
    /\ args.discretionary_spending_inr = 1
    /\ \E j \in Positions("discretionary") : Areas[j].amount = 0
    /\ \E k \in DOMAIN optimization_suggestions(
                    [args EXCEPT !.discretionary_spending_inr = 2], TRUE, TRUE) :
            optimization_suggestions(
                [args EXCEPT !.discretionary_spending_inr = 2], TRUE, TRUE)[k]
                    = DiscretionaryMsg(0)

\* C8, as stated: with monthly_net_income = 0 the call returns a result, and
\* whenever an expense input is positive the result holds the discretionary,
\* the deficit and the fixed-cost load message.
C8_AnyExpenseTripsAll ==
    /\ (pc = "idle" /\ args.monthly_net_income_inr = 0) => ENABLED Next
    /\ (/\ Returned
        /\ args.monthly_net_income_inr = 0
        /\ \/ args.fixed_expenses_inr > 0
           \/ args.variable_expenses_inr > 0
           \/ args.discretionary_spending_inr > 0)
       => /\ Has("discretionary")
          /\ Has("deficit")
          /\ Has("fixed_load")

\* C8, amended: with monthly_net_income = 0 the call returns a result, the
\* 30% and 50% thresholds are zero, and a positive expense trips the checks
\* that read it: the discretionary message is present iff
\* discretionary_spending is positive, the fixed-cost load message iff
\* fixed_expenses is positive, and the deficit message iff the expenses total
\* is positive (so, for non-negative expenses, whenever an expense input is
\* positive); the thin-surplus message is never present.
C8_EachExpenseTripsItsCheck ==
    /\ (pc = "idle" /\ args.monthly_net_income_inr = 0) => ENABLED Next
    /\ (Returned /\ args.monthly_net_income_inr = 0) =>
        /\ Has("discretionary") <=> args.discretionary_spending_inr > 0
        /\ Has("fixed_load") <=> args.fixed_expenses_inr > 0
        /\ Has("deficit") <=>
            args.fixed_expenses_inr + args.variable_expenses_inr
                + args.discretionary_spending_inr > 0
        /\ ~Has("thin_surplus")
        /\ (/\ args.fixed_expenses_inr >= 0
            /\ args.variable_expenses_inr >= 0
            /\ args.discretionary_spending_inr >= 0
            /\ \/ args.fixed_expenses_inr > 0
               \/ args.variable_expenses_inr > 0
               \/ args.discretionary_spending_inr > 0) => Has("deficit")

\* zero income, only a variable expense: the deficit message alone
C8_Witness ==
    /\ Returned
    /\ args.monthly_net_income_inr = 0
    /\ args.fixed_expenses_inr = 0
    /\ args.variable_expenses_inr > 0
    /\ args.discretionary_spending_inr = 0
    /\ Len(Areas) = 1
    /\ Areas[1].kind = "deficit"

\* C10: optimization_areas is empty iff no check fires (discretionary
\* spending <= 30% of income, net_cash_flow >= 0 and >= 10% of income, fixed
\* expenses <= 50% of income), as for income 100000, fixed 40000, variable
\* 20000, discretionary 10000; otherwise it holds one to three messages,
\* at most one from each check.
C10_EmptyIffNoCheckFires ==
    Returned =>
        LET quiet ==
                /\ 10 * args.discretionary_spending_inr
                        <= 3 * args.monthly_net_income_inr
                /\ result.net_cash_flow_inr >= 0
                /\ 10 * result.net_cash_flow_inr >= args.monthly_net_income_inr
                /\ 2 * args.fixed_expenses_inr <= args.monthly_net_income_inr
        IN  /\ Areas = <<>> <=> quiet
            /\ args = ScenarioB => Areas = <<>>
            /\ ~quiet => (Len(Areas) >= 1 /\ Len(Areas) <= 3)
            /\ Cardinality(Positions("discretionary")) <= 1
            /\ Cardinality(Positions("deficit") \cup Positions("thin_surplus")) <= 1
            /\ Cardinality(Positions("fixed_load")) <= 1

C10_Witness ==
    /\ Returned
    /\ args = ScenarioB
    /\ Areas = <<>>
    /\ result.goal_funding_status = "On track"
    /\ result.funding_shortfall_inr = 0

====
